---- MODULE Spec2Model ----
(***************************************************************************)
(* Versioned document storage of doc-manager: the Document / Version       *)
(* tables, the object store, DocumentService.revert / delete / getHistory  *)
(* and the upload worker (processUpload), as a state machine.              *)
(*                                                                         *)
(* Every await of a handler that reads or writes shared state (database,   *)
(* object store, temp files) is one step, so concurrent requests and jobs  *)
(* interleave exactly at the points where the Node event loop lets them.   *)
(***************************************************************************)
EXTENDS Integers, Sequences, FiniteSets, TLC

(***************************************************************************)
(* Bounds of the model.                                                    *)
(***************************************************************************)
\* revert requests issued in one behaviour
MaxReverts == 2
\* delete requests issued in one behaviour
MaxDeletes == 1
\* upload jobs enqueued in one behaviour
MaxJobs == 2
\* requests (reverts, deletes and uploads together) issued in one behaviour
MaxRequests == 3
\* backend faults (a storage or database call that throws although its arguments
\* are fine) in one behaviour
MaxFaults == 1
\* upload jobs enqueued in one behaviour of the worker pool under load
MaxPoolJobs == 4
\* download requests issued in one behaviour
MaxDownloads == 1

(***************************************************************************)
(* Values.                                                                 *)
(***************************************************************************)
Users == {"u1", "u2"}
NullUser == "null"
\* the value of an absent documentId (job.data.documentId undefined)
NoDocument == 0
\* a version id that names no row
MissingVersionId == 0

\* the project (storage scope) every tier of the model belongs to
ProjectId == "p1"
TierId == "t1"

VARIABLES
    documents,        \* table documents: id -> row (the domain is the set of rows)
    documentVersions, \* table document_versions: a set of rows
    nextDocumentId,   \* source of fresh document ids (uuid)
    nextVersionId,    \* source of fresh version ids (uuid)
    store,            \* object store: key -> content (the domain is the set of objects)
    reverts,          \* revert requests: sequence of call records
    deletes,          \* delete requests: sequence of call records
    tempFiles,        \* upload temp files on disk: path -> content
    jobs,             \* queue document-upload: job id -> job record
    faults,           \* number of backend faults so far
    uploads,          \* upload requests answered: sequence of responses
    downloads         \* download requests: sequence of call records

vars == <<documents, documentVersions, nextDocumentId, nextVersionId, store, reverts,
          deletes, tempFiles, jobs, faults, uploads, downloads>>

\* a further request can arrive
MoreRequests ==
    Len(reverts) + Len(deletes) + Len(uploads) + Len(downloads) < MaxRequests

\* a further backend fault can happen
MoreFaults == faults < MaxFaults

(***************************************************************************)
(* Object keys.  A key is a path string; the model keeps its directory,   *)
(* the chain of "revert-v<N>-" prefixes of its file name, and the rest of  *)
(* the file name (job id and extension).                                   *)
(***************************************************************************)
Key(dir, prefix, file) == [dir |-> dir, prefix |-> prefix, file |-> file]

\* path.basename(key)
Basename(key) == [prefix |-> key.prefix, file |-> key.file]

\* path.dirname(key).replace(/\\/g, '/')
Dirname(key) == key.dir

\* `revert-v${newVersionNumber}-${path.basename(targetVersion.filePath)}`
RevertFileName(newVersionNumber, base) ==
    [prefix |-> <<newVersionNumber>> \o base.prefix, file |-> base.file]

\* `${dirKey}/${newFileName}`
JoinKey(dirKey, fileName) == Key(dirKey, fileName.prefix, fileName.file)

\* the key revert copies the target version's object to
RevertObjectKey(targetFilePath, newVersionNumber) ==
    JoinKey(Dirname(targetFilePath),
            RevertFileName(newVersionNumber, Basename(targetFilePath)))

\* `documents/${projectId}/${job.id}${ext}`
UploadObjectKey(projectId, jobId, ext) ==
    Key(<<"documents", projectId>>, <<>>, <<jobId, ext>>)

(***************************************************************************)
(* Rows.                                                                   *)
(***************************************************************************)
Changelog(kind, n) == [kind |-> kind, n |-> n]

\* `Reverted to version ${targetVersion.versionNumber}`
RevertChangelog(targetVersionNumber) == Changelog("Reverted to version", targetVersionNumber)

VersionsOf(documentId) == {v \in documentVersions : v.documentId = documentId}

VersionNumbersOf(documentId) == {v.versionNumber : v \in VersionsOf(documentId)}

SetMax(S) == CHOOSE m \in S : \A x \in S : x <= m

\* prisma.documentVersion.findUnique({ where: { id } }): the set holds 0 or 1 row
FindVersion(versionId) == {v \in documentVersions : v.id = versionId}

DocumentExists(documentId) == documentId \in DOMAIN documents

\* rows of a document in insertion order (ids are handed out in increasing order)
RECURSIVE InsertionOrder(_)
InsertionOrder(rows) ==
    IF rows = {} THEN <<>>
    ELSE LET first == CHOOSE v \in rows : \A w \in rows : v.id <= w.id
         IN  <<first>> \o InsertionOrder(rows \ {first})

\* orderBy: { versionNumber: 'desc' }; rows with equal numbers come in an order the
\* database chooses, here newest row first
RECURSIVE OrderByVersionNumberDesc(_)
OrderByVersionNumberDesc(rows) ==
    IF rows = {} THEN <<>>
    ELSE LET first == CHOOSE v \in rows : \A w \in rows :
                          \/ v.versionNumber > w.versionNumber
                          \/ v.versionNumber = w.versionNumber /\ v.id >= w.id
         IN  <<first>> \o OrderByVersionNumberDesc(rows \ {first})

\* DocumentService.getHistory: "NotFound" (404) or the rows, newest number first
getHistory(documentId) ==
    IF ~DocumentExists(documentId) THEN [status |-> 404, rows |-> <<>>]
    ELSE [status |-> 200, rows |-> OrderByVersionNumberDesc(VersionsOf(documentId))]

(***************************************************************************)
(* The database the service starts on: two documents of tier t1 with their *)
(* version rows (document 1 has versions 1 and 2, document 2 has version   *)
(* 1), every version with its own object in the store.                     *)
(***************************************************************************)
NoFile == [fileName |-> <<"", "">>, filePath |-> Key(<<>>, <<>>, <<>>),
           mimeType |-> "", fileSize |-> 0]

DocumentRow(tierId, title, currentVersion, uploadedById, file) ==
    [tierId |-> tierId, title |-> title, currentVersion |-> currentVersion,
     uploadedById |-> uploadedById, file |-> file]

VersionRow(id, documentId, versionNumber, title, fileName, filePath, mimeType, fileSize, changelog, uploadedById) ==
    [id |-> id, documentId |-> documentId, versionNumber |-> versionNumber,
     title |-> title, fileName |-> fileName, filePath |-> filePath,
     mimeType |-> mimeType, fileSize |-> fileSize, changelog |-> changelog,
     uploadedById |-> uploadedById]

SeedKey(n) == UploadObjectKey(ProjectId, n, ".pdf")

SeedVersions ==
    { VersionRow(11, 1, 1, "A", <<"a", ".pdf">>, SeedKey(101), "application/pdf", 1024,
                 Changelog("null", 0), "u1"),
      VersionRow(12, 1, 2, "B", <<"b", ".pdf">>, SeedKey(102), "application/pdf", 2048,
                 Changelog("Fixed typo", 0), "u1"),
      VersionRow(21, 2, 1, "C", <<"c", ".pdf">>, SeedKey(103), "application/pdf", 512,
                 Changelog("null", 0), "u1") }

SeedDocuments ==
    (1 :> DocumentRow(TierId, "B", 2, "u1", NoFile)) @@
    (2 :> DocumentRow(TierId, "C", 1, "u1", NoFile))

SeedStore ==
    (SeedKey(101) :> "bytes-a") @@ (SeedKey(102) :> "bytes-b") @@ (SeedKey(103) :> "bytes-c")

Init ==
    /\ documents = SeedDocuments
    /\ documentVersions = SeedVersions
    /\ nextDocumentId = 3
    /\ nextVersionId = 31
    /\ store = SeedStore
    /\ reverts = <<>>
    /\ deletes = <<>>
    /\ tempFiles = <<>>
    /\ jobs = <<>>
    /\ faults = 0
    /\ uploads = <<>>
    /\ downloads = <<>>

(***************************************************************************)
(* DocumentService.revert(documentId, versionId, userId).                  *)
(***************************************************************************)
RevertCall(documentId, versionId, userId, pc, target) ==
    [documentId |-> documentId, versionId |-> versionId, userId |-> userId,
     pc |-> pc, target |-> target, newVersionNumber |-> 0,
     newObjectKey |-> Key(<<>>, <<>>, <<>>)]

\* the ids a request can name: every id handed out so far and one that names nothing
DocumentIdInputs == 1..nextDocumentId
VersionIdInputs == {v.id : v \in documentVersions} \cup {MissingVersionId}

\* a variant: the owner of the version is not compared with the document of the request
RevertTargetFoundAnyDocument(target, documentId) == target # {}

\* a variant: a revert to the version that is current is rejected as a no-op
RevertTargetFoundNotCurrent(target, documentId) ==
    /\ target # {}
    /\ \A t \in target :
          /\ t.documentId = documentId
          /\ DocumentExists(documentId) => t.versionNumber # documents[documentId].currentVersion

\* line 159: !(!targetVersion || targetVersion.documentId !== documentId)
RevertTargetFound(target, documentId) ==
    target # {} /\ \A t \in target : t.documentId = documentId

\* lines 155-161: resolve the target version; 404 when it is missing or belongs to
\* another document
RevertResolve(documentId, versionId, userId) ==
    /\ LET target == FindVersion(versionId)
       IN  reverts' = Append(reverts,
               RevertCall(documentId, versionId, userId,
                          IF RevertTargetFound(target, documentId)
                          THEN "readDocument" ELSE "notFound", target))
    /\ UNCHANGED <<documents, documentVersions, nextDocumentId, nextVersionId, store,
                   deletes, tempFiles, jobs, faults, uploads, downloads>>

\* a variant: the number of the current version is reused
NewVersionNumberNotIncremented(currentVersion) == currentVersion

\* line 168
NewVersionNumber(currentVersion) == currentVersion + 1

\* lines 164-173: read the document, compute the new version number and object key
RevertReadDocument(i) ==
    /\ reverts[i].pc = "readDocument"
    /\ LET r == reverts[i]
           t == CHOOSE t \in r.target : TRUE
       IN  IF ~DocumentExists(r.documentId)
           THEN reverts' = [reverts EXCEPT ![i].pc = "error"]
           ELSE LET n == NewVersionNumber(documents[r.documentId].currentVersion)
                IN  reverts' = [reverts EXCEPT
                        ![i].pc = "copy",
                        ![i].newVersionNumber = n,
                        ![i].newObjectKey = RevertObjectKey(t.filePath, n)]
    /\ UNCHANGED <<documents, documentVersions, nextDocumentId, nextVersionId, store,
                   deletes, tempFiles, jobs, faults, uploads, downloads>>

\* storageService.copy(srcKey, destKey): fails when the source object is missing,
\* else the destination holds the source's bytes (an existing one is overwritten)
StorageCopyOk(srcKey) == srcKey \in DOMAIN store

StorageCopy(srcKey, destKey) ==
    [k \in DOMAIN store \cup {destKey} |-> IF k = destKey THEN store[srcKey] ELSE store[k]]

\* line 174
RevertCopy(i) ==
    /\ reverts[i].pc = "copy"
    /\ LET r == reverts[i]
           t == CHOOSE t \in r.target : TRUE
       IN  IF StorageCopyOk(t.filePath)
           THEN /\ store' = StorageCopy(t.filePath, r.newObjectKey)
                /\ reverts' = [reverts EXCEPT ![i].pc = "transaction"]
           ELSE /\ store' = store
                /\ reverts' = [reverts EXCEPT ![i].pc = "error"]
    /\ UNCHANGED <<documents, documentVersions, nextDocumentId, nextVersionId,
                   deletes, tempFiles, jobs, faults, uploads, downloads>>

\* a variant: the error of the copy is swallowed and the call goes on to its
\* transaction
RevertCopyFaultSwallowed(i) ==
    /\ reverts[i].pc = "copy"
    /\ reverts' = [reverts EXCEPT ![i].pc = "transaction"]
    /\ faults' = faults + 1
    /\ UNCHANGED <<documents, documentVersions, nextDocumentId, nextVersionId, store,
                   deletes, tempFiles, jobs, uploads, downloads>>

\* line 174: storageService.copy throws (an I/O error of the backend); the error
\* leaves revert, nothing is written
RevertCopyFault(i) ==
    /\ reverts[i].pc = "copy"
    /\ reverts' = [reverts EXCEPT ![i].pc = "error"]
    /\ faults' = faults + 1
    /\ UNCHANGED <<documents, documentVersions, nextDocumentId, nextVersionId, store,
                   deletes, tempFiles, jobs, uploads, downloads>>

\* a variant: the creator is copied from the target like the other columns
RevertVersionRowCreatorOfTarget(id, r, t) ==
    VersionRow(id, r.documentId, r.newVersionNumber, t.title, t.fileName,
               r.newObjectKey, t.mimeType, t.fileSize,
               RevertChangelog(t.versionNumber), t.uploadedById)

\* lines 178-190: the row tx.documentVersion.create inserts
RevertVersionRow(id, r, t) ==
    VersionRow(id, r.documentId, r.newVersionNumber, t.title, t.fileName,
               r.newObjectKey, t.mimeType, t.fileSize,
               RevertChangelog(t.versionNumber), r.userId)

\* lines 193-199: the row tx.document.update leaves
RevertDocumentRow(old, r, t) ==
    [old EXCEPT !.title = t.title, !.currentVersion = r.newVersionNumber,
                !.uploadedById = r.userId]

\* a variant: the target row is rewritten (an update) instead of a new row inserted
InsertRevertVersionInPlace(r, t) ==
    (documentVersions \ {t}) \cup {RevertVersionRow(t.id, r, t)}

\* line 178: tx.documentVersion.create adds one row with a fresh id
InsertRevertVersion(r, t) ==
    documentVersions \cup {RevertVersionRow(nextVersionId, r, t)}

\* a variant: the insert is not rolled back when the update of the document fails,
\* and no foreign key stops it
RevertTransactionWithoutRollback(i) ==
    /\ reverts[i].pc = "transaction"
    /\ LET r == reverts[i]
           t == CHOOSE t \in r.target : TRUE
       IN  /\ documentVersions' = InsertRevertVersion(r, t)
           /\ nextVersionId' = nextVersionId + 1
           /\ IF DocumentExists(r.documentId)
              THEN /\ documents' = [documents EXCEPT
                          ![r.documentId] = RevertDocumentRow(@, r, t)]
                   /\ reverts' = [reverts EXCEPT ![i].pc = "done"]
              ELSE /\ documents' = documents
                   /\ reverts' = [reverts EXCEPT ![i].pc = "error"]
    /\ UNCHANGED <<nextDocumentId, store, deletes, tempFiles, jobs, faults, uploads, downloads>>

\* lines 177-213: the transaction; it rolls back when the document is gone (the
\* foreign key of the insert, or the update of a missing row)
RevertTransaction(i) ==
    /\ reverts[i].pc = "transaction"
    /\ LET r == reverts[i]
           t == CHOOSE t \in r.target : TRUE
       IN  IF DocumentExists(r.documentId)
           THEN /\ documentVersions' = InsertRevertVersion(r, t)
                /\ nextVersionId' = nextVersionId + 1
                /\ documents' = [documents EXCEPT
                       ![r.documentId] = RevertDocumentRow(@, r, t)]
                /\ reverts' = [reverts EXCEPT ![i].pc = "done"]
           ELSE /\ reverts' = [reverts EXCEPT ![i].pc = "error"]
                /\ UNCHANGED <<documents, documentVersions, nextVersionId>>
    /\ UNCHANGED <<nextDocumentId, store, deletes, tempFiles, jobs, faults, uploads, downloads>>

(***************************************************************************)
(* DocumentService.delete(id).                                             *)
(***************************************************************************)
\* the storage providers of createStorageService
Providers == {"local", "gcs", "s3", "azure"}

\* a store without the object of a key
RemoveObject(s, objectKey) == [k \in DOMAIN s \ {objectKey} |-> s[k]]

\* the delete call of a provider's own client (fsp.unlink, file.delete,
\* DeleteObjectCommand, blockBlobClient.delete) on a store s: the HTTP-like code of
\* its outcome, 404 for an object that is not there, except on S3, whose
\* DeleteObject answers 204 for it
ClientDelete(provider, s, objectKey) ==
    IF objectKey \in DOMAIN s THEN [code |-> 200, store |-> RemoveObject(s, objectKey)]
    ELSE IF provider = "s3" THEN [code |-> 204, store |-> s]
    ELSE [code |-> 404, store |-> s]

\* a variant: the error of the client is passed on whatever its code
StorageDeleteOnWithoutCatch(provider, s, objectKey) ==
    LET r == ClientDelete(provider, s, objectKey)
    IN  [threw |-> r.code \notin {200, 204}, store |-> r.store]

\* delete(objectKey) of the four storage services: local checks existsSync first,
\* GCS and Azure catch the client's 404, S3 passes the client's answer on
StorageDeleteOn(provider, s, objectKey) ==
    LET r == ClientDelete(provider, s, objectKey)
    IN  IF provider = "local"
        THEN IF objectKey \in DOMAIN s
             THEN [threw |-> r.code # 200, store |-> r.store]
             ELSE [threw |-> FALSE, store |-> s]
        ELSE IF provider \in {"gcs", "azure"}
        THEN [threw |-> r.code \notin {200, 404}, store |-> r.store]
        ELSE [threw |-> r.code \notin {200, 204}, store |-> r.store]

\* the upload call of a provider's client (fsp.copyFile, bucket.upload,
\* PutObjectCommand, uploadFile) with the files on disk: the object holds the bytes
\* of the source file, an object that was there is replaced; without the source
\* file the call fails before anything is written (code 0, no answer of the store)
ClientPut(provider, s, files, objectKey, sourcePath) ==
    IF sourcePath \in DOMAIN files
    THEN [code |-> 200, store |-> (objectKey :> files[sourcePath]) @@ s]
    ELSE [code |-> 0, store |-> s]

\* upload(objectKey, sourcePath) of the four storage services: the error of the
\* client is passed on
StorageUploadOn(provider, s, files, objectKey, sourcePath) ==
    LET r == ClientPut(provider, s, files, objectKey, sourcePath)
    IN  [threw |-> r.code # 200, store |-> r.store]

\* the copy call of a provider's client (fsp.copyFile, file.copy, CopyObjectCommand,
\* beginCopyFromURL and its poller): 404 for a source that is not there
ClientCopy(provider, s, srcKey, destKey) ==
    IF srcKey \in DOMAIN s
    THEN [code |-> 200, store |-> (destKey :> s[srcKey]) @@ s]
    ELSE [code |-> 404, store |-> s]

\* copy(srcKey, destKey) of the four storage services: the error of the client is
\* passed on
StorageCopyOn(provider, s, srcKey, destKey) ==
    LET r == ClientCopy(provider, s, srcKey, destKey)
    IN  [threw |-> r.code # 200, store |-> r.store]

\* the existence call of a provider's client: fs.existsSync, file.exists() and
\* blockBlobClient.exists() answer a boolean, HeadObjectCommand fails with NotFound
\* (404) for an object that is not there
ClientHead(provider, s, objectKey) ==
    IF objectKey \in DOMAIN s THEN [code |-> 200, value |-> TRUE]
    ELSE IF provider = "s3" THEN [code |-> 404, value |-> FALSE]
    ELSE [code |-> 200, value |-> FALSE]

\* a variant: the NotFound of HeadObjectCommand is passed on
StorageExistsOnWithoutCatch(provider, s, objectKey) ==
    LET r == ClientHead(provider, s, objectKey)
    IN  [threw |-> r.code # 200, value |-> r.value]

\* exists(objectKey) of the four storage services: S3 answers true when
\* HeadObjectCommand succeeds, false when it fails with NotFound or 404
StorageExistsOn(provider, s, objectKey) ==
    LET r == ClientHead(provider, s, objectKey)
    IN  IF provider = "s3"
        THEN [threw |-> r.code \notin {200, 404}, value |-> r.code = 200]
        ELSE [threw |-> FALSE, value |-> r.value]

\* download(objectKey) of the four storage services, read to its end by the
\* consumer: the stream yields the bytes of the object, or emits an error
\* (createReadStream of local and GCS; S3 and Azure destroy their PassThrough with
\* the error of the client)
StorageDownloadOn(provider, s, objectKey) ==
    IF objectKey \in DOMAIN s
    THEN [threw |-> FALSE, bytes |-> s[objectKey]]
    ELSE [threw |-> TRUE, bytes |-> ""]

\* storageService.delete(objectKey): removes the object when it is there
StorageDelete(objectKey) == [k \in DOMAIN store \ {objectKey} |-> store[k]]

\* lines 251-253: read the version rows of the document
DeleteFindVersions(id) ==
    /\ LET rows == InsertionOrder(VersionsOf(id))
       IN  deletes' = Append(deletes,
               [id |-> id, pc |-> "storage",
                keys |-> [n \in 1..Len(rows) |-> rows[n].filePath]])
    /\ UNCHANGED <<documents, documentVersions, nextDocumentId, nextVersionId, store,
                   reverts, tempFiles, jobs, faults, uploads, downloads>>

\* lines 256-262: one round of the loop, the storage delete succeeds
DeleteStorage(i) ==
    /\ deletes[i].pc = "storage"
    /\ deletes[i].keys # <<>>
    /\ store' = StorageDelete(Head(deletes[i].keys))
    /\ deletes' = [deletes EXCEPT ![i].keys = Tail(@)]
    /\ UNCHANGED <<documents, documentVersions, nextDocumentId, nextVersionId,
                   reverts, tempFiles, jobs, faults, uploads, downloads>>

\* a variant: the error of the storage delete is not caught and ends the call
DeleteStorageFaultEndsCall(i) ==
    /\ deletes[i].pc = "storage"
    /\ deletes[i].keys # <<>>
    /\ deletes' = [deletes EXCEPT ![i].pc = "error"]
    /\ faults' = faults + 1
    /\ UNCHANGED <<documents, documentVersions, nextDocumentId, nextVersionId, store,
                   reverts, tempFiles, jobs, uploads, downloads>>

\* lines 259-261: the storage delete throws, the catch swallows the error
DeleteStorageFault(i) ==
    /\ deletes[i].pc = "storage"
    /\ deletes[i].keys # <<>>
    /\ deletes' = [deletes EXCEPT ![i].keys = Tail(@)]
    /\ faults' = faults + 1
    /\ UNCHANGED <<documents, documentVersions, nextDocumentId, nextVersionId, store,
                   reverts, tempFiles, jobs, uploads, downloads>>

\* a variant: only the rows of superseded versions go, the first version's row stays
CascadeDeleteKeepsFirst(id) ==
    {v \in documentVersions : v.documentId # id \/ v.versionNumber = 1}

\* ON DELETE CASCADE of document_versions_document_id_fkey
CascadeDelete(id) == {v \in documentVersions : v.documentId # id}

\* line 265: prisma.document.delete; it throws when the row does not exist
DeleteDocument(i) ==
    /\ deletes[i].pc = "storage"
    /\ deletes[i].keys = <<>>
    /\ LET id == deletes[i].id
       IN  IF DocumentExists(id)
           THEN /\ documents' = [d \in DOMAIN documents \ {id} |-> documents[d]]
                /\ documentVersions' = CascadeDelete(id)
                /\ deletes' = [deletes EXCEPT ![i].pc = "done"]
           ELSE /\ deletes' = [deletes EXCEPT ![i].pc = "error"]
                /\ UNCHANGED <<documents, documentVersions>>
    /\ UNCHANGED <<nextDocumentId, nextVersionId, store, reverts, tempFiles, jobs, faults, uploads, downloads>>

\* line 265: prisma.document.delete throws (an error of the database); the rows
\* stay, the error leaves delete
DeleteDocumentFault(i) ==
    /\ deletes[i].pc = "storage"
    /\ deletes[i].keys = <<>>
    /\ deletes' = [deletes EXCEPT ![i].pc = "error"]
    /\ faults' = faults + 1
    /\ UNCHANGED <<documents, documentVersions, nextDocumentId, nextVersionId, store,
                   reverts, tempFiles, jobs, uploads, downloads>>

(***************************************************************************)
(* Download: DocumentController.download and DocumentService.getFileInfo.  *)
(***************************************************************************)
\* the body of an answer that carries no file
NoBytes == ""

\* a download call: the document asked for, where the call stands, the object key
\* getFileInfo returned, and the answer (HTTP status, body)
DownloadCall(id, pc, objectKey, status, bytes) ==
    [id |-> id, pc |-> pc, objectKey |-> objectKey, status |-> status, bytes |-> bytes]

\* lines 218-226 of getFileInfo: versions ordered by versionNumber desc, take 1
LatestVersions(id) ==
    LET rows == OrderByVersionNumberDesc(VersionsOf(id))
    IN  IF rows = <<>> THEN <<>> ELSE <<rows[1]>>

\* lines 218-235: the document with its latest version; 404 when the document or
\* the version is not there
DownloadFindDocument(id) ==
    /\ downloads' = Append(downloads,
          IF ~DocumentExists(id) \/ LatestVersions(id) = <<>>
          THEN DownloadCall(id, "done", <<>>, 404, NoBytes)
          ELSE DownloadCall(id, "exists", LatestVersions(id)[1].filePath, 0, NoBytes))
    /\ UNCHANGED <<documents, documentVersions, nextDocumentId, nextVersionId, store,
                   reverts, deletes, tempFiles, jobs, faults, uploads>>

\* lines 237-240: storageService.exists(latestVersion.filePath); 404 when it is not
DownloadExists(i) ==
    /\ downloads[i].pc = "exists"
    /\ downloads' = [downloads EXCEPT ![i] =
          IF downloads[i].objectKey \in DOMAIN store
          THEN [@ EXCEPT !.pc = "stream"]
          ELSE [@ EXCEPT !.pc = "done", !.status = 404]]
    /\ UNCHANGED <<documents, documentVersions, nextDocumentId, nextVersionId, store,
                   reverts, deletes, tempFiles, jobs, faults, uploads>>

\* lines 123-134 of the controller: storageService.download(objectKey) piped into
\* the response; when the stream fails before a byte is sent the error handler
\* answers 500
DownloadStream(i) ==
    /\ downloads[i].pc = "stream"
    /\ downloads' = [downloads EXCEPT ![i] =
          IF downloads[i].objectKey \in DOMAIN store
          THEN [@ EXCEPT !.pc = "done", !.status = 200,
                         !.bytes = store[downloads[i].objectKey]]
          ELSE [@ EXCEPT !.pc = "done", !.status = 500]]
    /\ UNCHANGED <<documents, documentVersions, nextDocumentId, nextVersionId, store,
                   reverts, deletes, tempFiles, jobs, faults, uploads>>

(***************************************************************************)
(* Upload: DocumentController.upload, DocumentService.enqueueUpload and    *)
(* the queue document-upload.                                              *)
(***************************************************************************)
\* attempts of defaultJobOptions
Attempts == 3
\* concurrency of the worker
Concurrency == 3

\* the tiers that exist
Tiers == {TierId}
\* a tier id that names no row
MissingTierId == "t0"

\* the tier and the document an upload request can name: the tier that exists
\* with no document or any document id, a missing tier with or without a document
UploadInputs ==
    {<<TierId, documentId>> : documentId \in {NoDocument} \cup DocumentIdInputs}
        \cup {<<MissingTierId, NoDocument>>, <<MissingTierId, 1>>}

\* the files a request can carry: name (stem, extension), MIME type, size, bytes
UploadFiles ==
    { [originalName |-> <<"manual", ".pdf">>, mimeType |-> "application/pdf",
       fileSize |-> 1024, bytes |-> "bytes-m"] }

\* multer: the temp path of the n-th accepted upload
TempFilePath(n) == <<"temp", n>>

\* path.extname(originalName)
Extname(originalName) == originalName[2]

\* a variant: the document asked for is not looked up
EnqueueStatusTierOnly(tierId, documentId) ==
    IF tierId \notin Tiers THEN 404 ELSE 202

\* lines 76-94 of enqueueUpload: the tier and, when given, the document must exist
EnqueueStatus(tierId, documentId) ==
    IF tierId \notin Tiers THEN 404
    ELSE IF documentId # NoDocument /\ ~DocumentExists(documentId) THEN 404
    ELSE 202

\* lines 44-48 of processUpload: the value a job returns
JobResult(documentId, fileName, fileSize) ==
    [documentId |-> documentId, fileName |-> fileName, fileSize |-> fileSize]

\* the returnvalue of a job that has not returned
NoResult == JobResult(NoDocument, <<"", "">>, 0)

\* lines 96-101: the job the queue persists
UploadJob(file, tierId, title, documentId, changelog, userId, tempFilePath) ==
    [data |-> [tempFilePath |-> tempFilePath, originalName |-> file.originalName,
               mimeType |-> file.mimeType, fileSize |-> file.fileSize,
               tierId |-> tierId, title |-> title, projectId |-> ProjectId,
               documentId |-> documentId, changelog |-> changelog, userId |-> userId],
     state |-> "waiting", pc |-> "none", attemptsMade |-> 0, progress |-> 0,
     returnvalue |-> NoResult, failedReason |-> ""]

\* the job id of a response that carries none
NoJob == 0

\* a variant: the answer carries no job id
UploadResponseWithoutJobId(tierId, documentId, status, jobId) ==
    [tierId |-> tierId, documentId |-> documentId, status |-> status, jobId |-> NoJob]

\* lines 49-53 and 54-59 of the controller: the answer of POST /upload, 202 with
\* the job id or the error of enqueueUpload, for the tier and document asked for
UploadResponse(tierId, documentId, status, jobId) ==
    [tierId |-> tierId, documentId |-> documentId, status |-> status, jobId |-> jobId]

\* lines 29-33 of the controller, then enqueueUpload: 400 when tierId or title is
\* missing, else the status of enqueueUpload
UploadStatus(tierId, title, documentId) ==
    IF tierId = "" \/ title = "" THEN 400 ELSE EnqueueStatus(tierId, documentId)

\* multer: the file of the request is on disk under its temp path before the
\* handler runs
StoreTempFile(files, tempFilePath, bytes) == (tempFilePath :> bytes) @@ files

\* a variant: a rejected request leaves its temp file on disk
KeepTempFile(files, tempFilePath) == files

\* lines 30 and 55-57 of the controller: fs.unlinkSync of the request's temp file
\* (in the catch block after fs.existsSync)
RemoveTempFile(files, tempFilePath) ==
    [f \in DOMAIN files \ {tempFilePath} |-> files[f]]

\* POST /upload: multer stores the temp file, enqueueUpload validates and adds the
\* job, and the request is answered with the job id; a rejected request removes
\* its temp file again and leaves no job
Upload(file, tierId, title, documentId, changelog, userId) ==
    /\ LET tempFilePath == TempFilePath(Len(uploads) + 1)
           stored == StoreTempFile(tempFiles, tempFilePath, file.bytes)
           status == UploadStatus(tierId, title, documentId)
       IN  IF status = 202
           THEN /\ jobs' = Append(jobs, UploadJob(file, tierId, title, documentId,
                                                 changelog, userId, tempFilePath))
                /\ tempFiles' = stored
                /\ uploads' = Append(uploads, UploadResponse(tierId, documentId, 202,
                                                             Len(jobs) + 1))
           ELSE /\ uploads' = Append(uploads,
                                     UploadResponse(tierId, documentId, status, NoJob))
                /\ tempFiles' = RemoveTempFile(stored, tempFilePath)
                /\ jobs' = jobs
    /\ UNCHANGED <<documents, documentVersions, nextDocumentId, nextVersionId, store,
                   reverts, deletes, faults, downloads>>

\* line 101 of enqueueUpload: uploadQueue.add throws (the queue cannot be reached)
\* after the lookups passed; the catch block of the controller removes the temp
\* file and the error handler answers 500
UploadAddFault(file, tierId, title, documentId, changelog, userId) ==
    /\ UploadStatus(tierId, title, documentId) = 202
    /\ LET tempFilePath == TempFilePath(Len(uploads) + 1)
           stored == StoreTempFile(tempFiles, tempFilePath, file.bytes)
       IN  /\ uploads' = Append(uploads, UploadResponse(tierId, documentId, 500, NoJob))
           /\ tempFiles' = RemoveTempFile(stored, tempFilePath)
    /\ faults' = faults + 1
    /\ UNCHANGED <<documents, documentVersions, nextDocumentId, nextVersionId, store,
                   reverts, deletes, jobs, downloads>>

\* the answer of getJobStatus for a job id the queue does not know
JobNotFound == [status |-> 404, state |-> "", progress |-> 0, result |-> NoResult,
                failedReason |-> ""]

\* a variant: a job the queue does not know is reported as a waiting job
getJobStatusOfAnyId(jobId) ==
    IF jobId \in 1..Len(jobs)
    THEN [status |-> 200, state |-> jobs[jobId].state, progress |-> jobs[jobId].progress,
          result |-> jobs[jobId].returnvalue, failedReason |-> jobs[jobId].failedReason]
    ELSE [status |-> 200, state |-> "waiting", progress |-> 0, result |-> NoResult,
          failedReason |-> ""]

\* lines 105-123: getJobStatus(jobId), 404 when the queue has no such job, else
\* the job's state, progress, returnvalue and failedReason
getJobStatus(jobId) ==
    IF jobId \notin 1..Len(jobs)
    THEN JobNotFound
    ELSE [status |-> 200, state |-> jobs[jobId].state, progress |-> jobs[jobId].progress,
          result |-> jobs[jobId].returnvalue, failedReason |-> jobs[jobId].failedReason]

(***************************************************************************)
(* The worker: processUpload(job), one attempt of a job.                   *)
(***************************************************************************)
Active == {j \in 1..Len(jobs) : jobs[j].state = "active"}

\* a variant: the worker takes a waiting job whatever the number of active jobs
WorkerTakeWithoutLimit(j) ==
    /\ jobs[j].state = "waiting"
    /\ jobs' = [jobs EXCEPT ![j].state = "active", ![j].pc = "upload",
                             ![j].progress = 30]
    /\ UNCHANGED <<documents, documentVersions, nextDocumentId, nextVersionId, store,
                   reverts, deletes, tempFiles, faults, uploads, downloads>>

\* the worker takes a waiting job when fewer than Concurrency jobs are active;
\* lines 13-19: progress 10, the object key, progress 30
WorkerTake(j) ==
    /\ jobs[j].state = "waiting"
    /\ Cardinality(Active) < Concurrency
    /\ jobs' = [jobs EXCEPT ![j].state = "active", ![j].pc = "upload",
                             ![j].progress = 30]
    /\ UNCHANGED <<documents, documentVersions, nextDocumentId, nextVersionId, store,
                   reverts, deletes, tempFiles, faults, uploads, downloads>>

\* a variant: the key names the attempt as well as the job
JobObjectKeyPerAttempt(j) ==
    Key(<<"documents", jobs[j].data.projectId>>, <<>>,
        <<j, jobs[j].attemptsMade, Extname(jobs[j].data.originalName)>>)

\* lines 16-17
JobObjectKey(j) ==
    UploadObjectKey(jobs[j].data.projectId, j, Extname(jobs[j].data.originalName))

\* a variant: the job is retried once more than Attempts allows
FailAttemptOnceMore(job, reason) ==
    [job EXCEPT !.attemptsMade = @ + 1,
                !.state = IF job.attemptsMade + 1 <= Attempts THEN "waiting" ELSE "failed",
                !.pc = "none",
                !.failedReason = reason]

\* a variant: the job of an attempt that throws is left active, nobody works on it
FailAttemptLeavesJobActive(job, reason) ==
    [job EXCEPT !.attemptsMade = @ + 1,
                !.state = "active",
                !.pc = "none",
                !.failedReason = reason]

\* an attempt that throws: the queue retries the job until Attempts attempts are made
FailAttempt(job, reason) ==
    [job EXCEPT !.attemptsMade = @ + 1,
                !.state = IF job.attemptsMade + 1 < Attempts THEN "waiting" ELSE "failed",
                !.pc = "none",
                !.failedReason = reason]

\* storageService.upload(objectKey, sourcePath): the object holds the file's bytes
StorageUpload(objectKey, sourcePath) ==
    (objectKey :> tempFiles[sourcePath]) @@ store

\* line 22: the put; it throws when the temp file is gone
WorkerUpload(j) ==
    /\ jobs[j].state = "active"
    /\ jobs[j].pc = "upload"
    /\ IF jobs[j].data.tempFilePath \in DOMAIN tempFiles
       THEN /\ store' = StorageUpload(JobObjectKey(j), jobs[j].data.tempFilePath)
            /\ jobs' = [jobs EXCEPT ![j].pc = "unlink"]
       ELSE /\ store' = store
            /\ jobs' = [jobs EXCEPT ![j] = FailAttempt(@, "ENOENT")]
    /\ UNCHANGED <<documents, documentVersions, nextDocumentId, nextVersionId,
                   reverts, deletes, tempFiles, faults, uploads, downloads>>

\* a variant: the failed put removes the temp file (a cleanup in a finally block)
WorkerUploadFaultRemovesTemp(j) ==
    /\ jobs[j].state = "active"
    /\ jobs[j].pc = "upload"
    /\ jobs' = [jobs EXCEPT ![j] = FailAttempt(@, "storage")]
    /\ tempFiles' = [f \in DOMAIN tempFiles \ {jobs[j].data.tempFilePath} |-> tempFiles[f]]
    /\ faults' = faults + 1
    /\ UNCHANGED <<documents, documentVersions, nextDocumentId, nextVersionId, store,
                   reverts, deletes, uploads, downloads>>

\* line 22: the backend fails the put; nothing is stored
WorkerUploadFault(j) ==
    /\ jobs[j].state = "active"
    /\ jobs[j].pc = "upload"
    /\ jobs' = [jobs EXCEPT ![j] = FailAttempt(@, "storage")]
    /\ faults' = faults + 1
    /\ UNCHANGED <<documents, documentVersions, nextDocumentId, nextVersionId, store,
                   reverts, deletes, tempFiles, uploads, downloads>>

\* lines 25-27: fs.unlink(tempFilePath), progress 60
WorkerUnlink(j) ==
    /\ jobs[j].state = "active"
    /\ jobs[j].pc = "unlink"
    /\ tempFiles' = [f \in DOMAIN tempFiles \ {jobs[j].data.tempFilePath} |-> tempFiles[f]]
    /\ jobs' = [jobs EXCEPT ![j].pc = "create", ![j].progress = 60]
    /\ UNCHANGED <<documents, documentVersions, nextDocumentId, nextVersionId, store,
                   reverts, deletes, faults, uploads, downloads>>

\* line 25: fs.unlink throws; the temp file stays where it is
WorkerUnlinkFault(j) ==
    /\ jobs[j].state = "active"
    /\ jobs[j].pc = "unlink"
    /\ jobs' = [jobs EXCEPT ![j] = FailAttempt(@, "unlink")]
    /\ faults' = faults + 1
    /\ UNCHANGED <<documents, documentVersions, nextDocumentId, nextVersionId, store,
                   reverts, deletes, tempFiles, uploads, downloads>>

\* lines 30-40: the row prisma.document.create inserts; current_version and
\* uploaded_by_id take the defaults of the table (1 and null)
CreatedDocumentRow(data, objectKey) ==
    DocumentRow(data.tierId, data.title, 1, NullUser,
                [fileName |-> data.originalName, filePath |-> objectKey,
                 mimeType |-> data.mimeType, fileSize |-> data.fileSize])

\* a variant: the job that returned is put back in the queue
CompletedJobRequeued(job, documentId) ==
    [job EXCEPT !.state = "waiting", !.pc = "none", !.progress = 100,
                !.returnvalue = JobResult(documentId, job.data.originalName,
                                          job.data.fileSize)]

\* lines 42-48: progress 100 and the returned value; the queue marks the job completed
CompletedJob(job, documentId) ==
    [job EXCEPT !.state = "completed", !.pc = "none", !.progress = 100,
                !.returnvalue = JobResult(documentId, job.data.originalName,
                                          job.data.fileSize)]

\* lines 30-48: create the database record, progress 100, the job's result
WorkerCreate(j) ==
    /\ jobs[j].state = "active"
    /\ jobs[j].pc = "create"
    /\ documents' = (nextDocumentId :>
                       CreatedDocumentRow(jobs[j].data, JobObjectKey(j))) @@ documents
    /\ nextDocumentId' = nextDocumentId + 1
    /\ jobs' = [jobs EXCEPT ![j] = CompletedJob(@, nextDocumentId)]
    /\ UNCHANGED <<documentVersions, nextVersionId, store, reverts, deletes, tempFiles,
                   faults, uploads, downloads>>

\* a variant: the row is written and the call throws afterwards
WorkerCreateFaultAfterInsert(j) ==
    /\ jobs[j].state = "active"
    /\ jobs[j].pc = "create"
    /\ documents' = (nextDocumentId :>
                       CreatedDocumentRow(jobs[j].data, JobObjectKey(j))) @@ documents
    /\ nextDocumentId' = nextDocumentId + 1
    /\ jobs' = [jobs EXCEPT ![j] = FailAttempt(@, "database")]
    /\ faults' = faults + 1
    /\ UNCHANGED <<documentVersions, nextVersionId, store, reverts, deletes, tempFiles,
                   uploads, downloads>>

\* line 30: prisma.document.create throws; no row is written
WorkerCreateFault(j) ==
    /\ jobs[j].state = "active"
    /\ jobs[j].pc = "create"
    /\ jobs' = [jobs EXCEPT ![j] = FailAttempt(@, "database")]
    /\ faults' = faults + 1
    /\ UNCHANGED <<documents, documentVersions, nextDocumentId, nextVersionId, store,
                   reverts, deletes, tempFiles, uploads, downloads>>

(***************************************************************************)
(* The system.  Requests arrive at any time (at most MaxRequests of them); *)
(* the steps of the calls and jobs in flight interleave freely.  In Spec   *)
(* the backends answer every well-formed call; SpecFaults adds calls that  *)
(* throw.                                                                  *)
(***************************************************************************)
RevertRequest ==
    /\ MoreRequests
    /\ Len(reverts) < MaxReverts
    /\ \E documentId \in DocumentIdInputs, versionId \in VersionIdInputs :
           RevertResolve(documentId, versionId, "u2")

DeleteRequest ==
    /\ MoreRequests
    /\ Len(deletes) < MaxDeletes
    /\ \E id \in DocumentIdInputs : DeleteFindVersions(id)

UploadRequest ==
    /\ MoreRequests
    /\ Len(uploads) < MaxJobs
    /\ \E file \in UploadFiles, input \in UploadInputs :
           Upload(file, input[1], "Quality Manual", input[2],
                  Changelog("Fixed typo", 0), "u2")

DownloadRequest ==
    /\ MoreRequests
    /\ Len(downloads) < MaxDownloads
    /\ \E id \in DocumentIdInputs : DownloadFindDocument(id)

\* the steps of the download calls in flight
DownloadSteps ==
    \/ \E i \in 1..Len(downloads) : DownloadExists(i)
    \/ \E i \in 1..Len(downloads) : DownloadStream(i)

\* the steps of the revert calls in flight
RevertSteps ==
    \/ \E i \in 1..Len(reverts) : RevertReadDocument(i)
    \/ \E i \in 1..Len(reverts) : RevertCopy(i)
    \/ \E i \in 1..Len(reverts) : RevertTransaction(i)

\* the steps of the delete calls in flight
DeleteSteps ==
    \/ \E i \in 1..Len(deletes) : DeleteStorage(i)
    \/ \E i \in 1..Len(deletes) : DeleteDocument(i)

\* the steps of the worker on the jobs of the queue
WorkerSteps ==
    \/ \E j \in 1..Len(jobs) : WorkerTake(j)
    \/ \E j \in 1..Len(jobs) : WorkerUpload(j)
    \/ \E j \in 1..Len(jobs) : WorkerUnlink(j)
    \/ \E j \in 1..Len(jobs) : WorkerCreate(j)

\* the steps of the worker in which a backend call throws
WorkerFaults ==
    \/ MoreFaults /\ \E j \in 1..Len(jobs) : WorkerUploadFault(j)
    \/ MoreFaults /\ \E j \in 1..Len(jobs) : WorkerUnlinkFault(j)
    \/ MoreFaults /\ \E j \in 1..Len(jobs) : WorkerCreateFault(j)

Steps ==
    \/ RevertSteps
    \/ DeleteSteps
    \/ WorkerSteps

Next ==
    \/ RevertRequest
    \/ DeleteRequest
    \/ UploadRequest
    \/ Steps

Spec == Init /\ [][Next]_vars

NextFaults ==
    \/ Next
    \/ MoreFaults /\ \E i \in 1..Len(deletes) : DeleteStorageFault(i)
    \/ WorkerFaults

SpecFaults == Init /\ [][NextFaults]_vars

\* the upload pipeline with backends that fail: upload requests, the worker, and
\* worker attempts that throw
NextWorkerFaults ==
    \/ UploadRequest
    \/ WorkerSteps
    \/ WorkerFaults

SpecWorkerFaults == Init /\ [][NextWorkerFaults]_vars

\* reverts and deletes with a storage copy that can throw
NextRevertFaults ==
    \/ RevertRequest
    \/ DeleteRequest
    \/ RevertSteps
    \/ DeleteSteps
    \/ MoreFaults /\ \E i \in 1..Len(reverts) : RevertCopyFault(i)

SpecRevertFaults == Init /\ [][NextRevertFaults]_vars

\* reverts and deletes with a database that can throw in the delete of a document
NextDeleteRowFaults ==
    \/ RevertRequest
    \/ DeleteRequest
    \/ RevertSteps
    \/ DeleteSteps
    \/ MoreFaults /\ \E i \in 1..Len(deletes) : DeleteDocumentFault(i)

SpecDeleteRowFaults == Init /\ [][NextDeleteRowFaults]_vars

\* an upload request without its tierId or without its title
IncompleteUploadRequest ==
    /\ MoreRequests
    /\ \E file \in UploadFiles, input \in UploadInputs, missing \in {"tierId", "title"} :
           Upload(file, IF missing = "tierId" THEN "" ELSE input[1],
                  IF missing = "title" THEN "" ELSE "Quality Manual", input[2],
                  Changelog("Fixed typo", 0), "u2")

\* an upload request whose queue add throws
FailedUploadRequest ==
    /\ MoreRequests
    /\ MoreFaults
    /\ \E file \in UploadFiles, input \in UploadInputs :
           UploadAddFault(file, input[1], "Quality Manual", input[2],
                          Changelog("Fixed typo", 0), "u2")

\* uploads that are accepted, rejected or fail in the queue add, and the worker
NextUploadFaults ==
    \/ UploadRequest
    \/ IncompleteUploadRequest
    \/ FailedUploadRequest
    \/ WorkerSteps

SpecUploadFaults == Init /\ [][NextUploadFaults]_vars

\* the worker keeps running: a worker step that stays possible is taken
SpecWorkerLive == Init /\ [][NextWorkerFaults]_vars /\ WF_vars(WorkerSteps)

\* a burst of first uploads: more jobs in the queue than the worker runs at once
PoolUploadRequest ==
    /\ Len(uploads) < MaxPoolJobs
    /\ \E file \in UploadFiles :
           Upload(file, TierId, "Quality Manual", NoDocument, Changelog("null", 0), "u2")

\* the worker pool under load
NextPool ==
    \/ PoolUploadRequest
    \/ WorkerSteps

SpecPool == Init /\ [][NextPool]_vars

\* deletes and reverts with an object store whose delete can throw
NextDeleteFaults ==
    \/ RevertRequest
    \/ DeleteRequest
    \/ RevertSteps
    \/ DeleteSteps
    \/ MoreFaults /\ \E i \in 1..Len(deletes) : DeleteStorageFault(i)

SpecDeleteFaults == Init /\ [][NextDeleteFaults]_vars

\* downloads while documents are uploaded and deleted
NextDownload ==
    \/ UploadRequest
    \/ DeleteRequest
    \/ DownloadRequest
    \/ WorkerSteps
    \/ DeleteSteps
    \/ DownloadSteps

SpecDownload == Init /\ [][NextDownload]_vars

\* no call and no job is in flight
Quiescent ==
    /\ \A i \in 1..Len(reverts) : reverts[i].pc \in {"notFound", "error", "done"}
    /\ \A i \in 1..Len(deletes) : deletes[i].pc \in {"error", "done"}
    /\ \A j \in 1..Len(jobs) : jobs[j].state \in {"completed", "failed"}
    /\ \A i \in 1..Len(downloads) : downloads[i].pc = "done"

\* requests that never overlap: a request arrives only when nothing is in flight
NextSequential ==
    \/ Quiescent /\ RevertRequest
    \/ Quiescent /\ DeleteRequest
    \/ Quiescent /\ UploadRequest
    \/ Steps

SpecSequential == Init /\ [][NextSequential]_vars

\* uploads, reverts and downloads that never overlap
NextSequentialDownload ==
    \/ Quiescent /\ UploadRequest
    \/ Quiescent /\ RevertRequest
    \/ Quiescent /\ DownloadRequest
    \/ WorkerSteps
    \/ RevertSteps
    \/ DownloadSteps

SpecSequentialDownload == Init /\ [][NextSequentialDownload]_vars

(***************************************************************************)
(* Properties.                                                             *)
(***************************************************************************)
\* the i-th revert call commits its transaction in this step
RevertCommits(i) == reverts[i].pc = "transaction" /\ reverts'[i].pc = "done"

\* the target row of a revert call that resolved one
TargetOf(r) == CHOOSE t \in r.target : TRUE

\* C1: every Document has at least one Version row and its currentVersion equals the
\* highest versionNumber among its Version rows, in every state (every state of the
\* model lies at a transaction boundary).
C1_CurrentVersionIsMaxVersionNumber ==
    \A d \in DOMAIN documents :
        /\ VersionsOf(d) # {}
        /\ documents[d].currentVersion = SetMax(VersionNumbersOf(d))

\* C2: no two Version rows of one Document carry the same versionNumber, whatever
\* the interleaving of the revert calls that committed them.
C2_RevertsCommitDistinctVersionNumbers ==
    \A v, w \in documentVersions :
        (v.documentId = w.documentId /\ v.versionNumber = w.versionNumber) => v.id = w.id

\* C4: no two Version rows hold the same object-store key.
C4_NoTwoVersionsShareAnObjectKey ==
    \A v, w \in documentVersions : v.filePath = w.filePath => v.id = w.id

\* the revert calls issued for a document
RevertsOn(d) == {i \in 1..Len(reverts) : reverts[i].documentId = d}

\* the upload jobs that name a document as their target (new-version uploads)
NewVersionJobsOn(d) == {j \in 1..Len(jobs) : jobs[j].data.documentId = d}

C5_RevertAddsOneRowAndKeepsTheOthers ==
    [][\A i \in 1..Len(reverts) :
          reverts'[i] # reverts[i] =>
             /\ \A v \in documentVersions :
                   v.filePath \in DOMAIN store =>
                      v.filePath \in DOMAIN store' /\ store'[v.filePath] = store[v.filePath]
             /\ IF RevertCommits(i)
                THEN /\ documentVersions \subseteq documentVersions'
                     /\ Cardinality(VersionsOf(reverts[i].documentId)') =
                            Cardinality(VersionsOf(reverts[i].documentId)) + 1
                     /\ Cardinality(documentVersions') = Cardinality(documentVersions) + 1
                     /\ TargetOf(reverts[i]) \in documentVersions'
                ELSE documentVersions' = documentVersions]_vars

\* C5 witness: a revert call has committed and its target row is still there with
\* its object.
C5_Witness ==
    \E i \in 1..Len(reverts) :
        /\ reverts[i].pc = "done"
        /\ TargetOf(reverts[i]) \in documentVersions
        /\ TargetOf(reverts[i]).filePath \in DOMAIN store

\* C6: a Version row, once there, stays as it is while its Document exists: a step
\* after which the row is missing or different is a step that deletes its Document
\* and with it every Version row of that Document.
C6_VersionHistoryIsAppendOnly ==
    [][\A v \in documentVersions :
          v \notin documentVersions' =>
             /\ DocumentExists(v.documentId)
             /\ ~DocumentExists(v.documentId)'
             /\ VersionsOf(v.documentId)' = {}]_vars

\* C6 witness: a revert has added a row to a Document, and a delete has removed
\* another Document together with its rows.
C6_Witness ==
    /\ \E i \in 1..Len(reverts) : reverts[i].pc = "done"
    /\ \E i \in 1..Len(deletes) : deletes[i].pc = "done"
    /\ documentVersions # {}

\* C7: a revert call that read currentVersion n computes n+1 as the new number; the
\* step in which it commits inserts exactly one row, numbered n+1, with changelog
\* "Reverted to version <T.versionNumber>", the acting user as creator, the new object
\* key, and title, fileName, mimeType and fileSize of the target row T, and in the
\* same step sets currentVersion of the Document to n+1.
C7_RevertInsertsTheNextVersion ==
    [][\A i \in 1..Len(reverts) :
          /\ (reverts[i].pc = "readDocument" /\ reverts'[i].pc = "copy") =>
                reverts'[i].newVersionNumber =
                   documents[reverts[i].documentId].currentVersion + 1
          /\ RevertCommits(i) =>
                LET r == reverts[i]
                    T == CHOOSE t \in documentVersions : t.id = r.versionId
                    new == documentVersions' \ documentVersions
                IN  /\ Cardinality(new) = 1
                    /\ \A v \in new :
                          /\ v.documentId = r.documentId
                          /\ v.versionNumber = r.newVersionNumber
                          /\ v.changelog = Changelog("Reverted to version", T.versionNumber)
                          /\ v.uploadedById = r.userId
                          /\ v.title = T.title
                          /\ v.fileName = T.fileName
                          /\ v.mimeType = T.mimeType
                          /\ v.fileSize = T.fileSize
                          /\ v.filePath = r.newObjectKey
                    /\ documents'[r.documentId].currentVersion = r.newVersionNumber]_vars

\* C7 witness: a revert to version 1 of document 1 (currentVersion 2) has committed
\* version 3.
C7_Witness ==
    \E i \in 1..Len(reverts) :
        /\ reverts[i].pc = "done"
        /\ reverts[i].versionId = 11
        /\ \E v \in VersionsOf(1) :
              v.versionNumber = 3 /\ v.changelog = Changelog("Reverted to version", 1)
        /\ documents[1].currentVersion = 3

\* C8: a revert call whose targetVersionId names no row, or a row of another
\* Document, ends NotFound at once; the step changes no Document, no Version row
\* and no object, and the call takes no further step.
C8_RevertOfAForeignOrMissingVersionIsNotFound ==
    [][/\ Len(reverts') > Len(reverts) =>
            LET r == reverts'[Len(reverts')]
                rows == {v \in documentVersions : v.id = r.versionId}
            IN  (rows = {} \/ \E v \in rows : v.documentId # r.documentId) =>
                   /\ r.pc = "notFound"
                   /\ UNCHANGED <<documents, documentVersions, store>>
       /\ \A i \in 1..Len(reverts) :
            reverts[i].pc = "notFound" => reverts'[i] = reverts[i]]_vars

\* C8 witness: one call was refused for a missing version id, another for the
\* version of another Document.
C8_Witness ==
    \E i, j \in 1..Len(reverts) :
        /\ reverts[i].pc = "notFound" /\ reverts[i].target = {}
        /\ reverts[j].pc = "notFound" /\ reverts[j].target # {}

\* the target of call r is the version its Document currently points at
TargetIsCurrent(r) ==
    /\ r.target # {}
    /\ DocumentExists(r.documentId)
    /\ TargetOf(r).documentId = r.documentId
    /\ TargetOf(r).versionNumber = documents[r.documentId].currentVersion

\* C9: with requests that do not overlap, a revert to the Version whose number is
\* the Document's currentVersion is accepted, none of its steps fails, and its
\* commit inserts a row numbered currentVersion+1 under a key of its own and moves
\* currentVersion to that number.
C9_RevertToTheCurrentVersionCreatesTheNextVersion ==
    [][/\ Len(reverts') > Len(reverts) =>
            (TargetIsCurrent(reverts'[Len(reverts')]) =>
                reverts'[Len(reverts')].pc = "readDocument")
       /\ \A i \in 1..Len(reverts) :
            (reverts'[i] # reverts[i] /\ TargetIsCurrent(reverts[i])) =>
               /\ reverts'[i].pc \notin {"notFound", "error"}
               /\ RevertCommits(i) =>
                     LET d == reverts[i].documentId
                         n == documents[d].currentVersion
                     IN  /\ documents'[d].currentVersion = n + 1
                         /\ \E v \in documentVersions' \ documentVersions :
                               /\ v.documentId = d
                               /\ v.versionNumber = n + 1
                               /\ v.filePath # TargetOf(reverts[i]).filePath]_vars

\* C9 witness: document 1 was reverted to its current version 2, which made
\* version 3.
C9_Witness ==
    \E i \in 1..Len(reverts) :
        /\ reverts[i].pc = "done"
        /\ reverts[i].versionId = 12
        /\ reverts[i].newVersionNumber = 3
        /\ documents[1].currentVersion = 3

\* the jobs that completed a first upload (no documentId), whose Document exists
FirstUploads ==
    {j \in 1..Len(jobs) : /\ jobs[j].state = "completed"
                          /\ jobs[j].data.documentId = NoDocument
                          /\ DocumentExists(jobs[j].returnvalue.documentId)}

\* C10: after requests that did not overlap, a Document made by a first upload and
\* then target of k completed new-version uploads and r committed reverts has
\* currentVersion 1+k+r, and getHistory returns 1+k+r rows numbered 1+k+r down to 1.
C10_SequentialRunCountsVersions ==
    Quiescent =>
        \A j \in FirstUploads :
            LET d == jobs[j].returnvalue.documentId
                k == Cardinality({u \in NewVersionJobsOn(d) : jobs[u].state = "completed"})
                r == Cardinality({i \in RevertsOn(d) : reverts[i].pc = "done"})
                h == getHistory(d).rows
            IN  /\ documents[d].currentVersion = 1 + k + r
                /\ Len(h) = 1 + k + r
                /\ \A n \in 1..Len(h) : h[n].versionNumber = 1 + k + r + 1 - n

\* the job's attempt commits its metadata in this step
JobCommits(j) == jobs[j].state = "active" /\ jobs[j].pc = "create" /\ jobs'[j].state = "completed"

\* C11: whenever a completed job without documentId names a Document that exists,
\* the Document has currentVersion 1 and a Version #1 with the size and the MIME
\* type of the job, so the Document is never seen without its Version #1.
C11_FirstUploadCreatesDocumentWithVersionOne ==
    \A j \in 1..Len(jobs) :
        (/\ jobs[j].state = "completed"
         /\ jobs[j].data.documentId = NoDocument
         /\ jobs[j].returnvalue.documentId \in DOMAIN documents)
        => /\ documents[jobs[j].returnvalue.documentId].currentVersion = 1
           /\ \E v \in VersionsOf(jobs[j].returnvalue.documentId) :
                 /\ v.versionNumber = 1
                 /\ v.fileSize = jobs[j].data.fileSize
                 /\ v.mimeType = jobs[j].data.mimeType

\* C12: the step in which a job with a documentId commits creates no Document; it
\* adds to the Document it names exactly one Version, numbered currentVersion + 1
\* and pointing at the job's object key, and sets currentVersion to that number.
C12_NewVersionUploadAddsVersionToItsDocument ==
    [][\A j \in 1..Len(jobs) :
          (JobCommits(j) /\ jobs[j].data.documentId \in DOMAIN documents)
          => LET d == jobs[j].data.documentId
                 n == documents[d].currentVersion
             IN  /\ DOMAIN documents' = DOMAIN documents
                 /\ documents'[d].currentVersion = n + 1
                 /\ \E v \in documentVersions' \ documentVersions :
                       /\ documentVersions' = documentVersions \cup {v}
                       /\ v.documentId = d
                       /\ v.versionNumber = n + 1
                       /\ v.filePath = JobObjectKey(j)]_vars

\* the job's attempt fails in this step
JobAttemptFails(j) ==
    jobs[j].state = "active" /\ jobs'[j].attemptsMade = jobs[j].attemptsMade + 1

\* C13: the step in which an attempt of a job fails (in the put, in the temp-file
\* delete or in the metadata commit) leaves the Document and Version rows as they
\* were; when it fails in the metadata commit the object the attempt stored is
\* still in the store and the store is not touched.
C13_FailedAttemptCommitsNothing ==
    [][\A j \in 1..Len(jobs) :
          JobAttemptFails(j)
          => /\ documents' = documents
             /\ documentVersions' = documentVersions
             /\ jobs[j].pc = "create"
                => /\ store' = store
                   /\ JobObjectKey(j) \in DOMAIN store']_vars

\* C13 witness: an attempt failed in its metadata commit: its object is stored,
\* no Document was created.
C13_Witness ==
    \E j \in 1..Len(jobs) :
        /\ jobs[j].failedReason = "database"
        /\ jobs[j].attemptsMade = 1
        /\ JobObjectKey(j) \in DOMAIN store
        /\ DOMAIN documents = DOMAIN SeedDocuments

\* C14: a job is attempted at most 3 times (an attempt running or completed is
\* at most the third), it is failed only with 3 failed attempts, and a failed job
\* is never changed again.
C14_AtMostThreeAttemptsThenFailedForGood ==
    [][\A j \in 1..Len(jobs) :
          /\ jobs[j].attemptsMade <= 3
          /\ jobs[j].state \in {"active", "completed"} => jobs[j].attemptsMade <= 2
          /\ jobs[j].state = "waiting" => jobs[j].attemptsMade <= 2
          /\ jobs[j].state = "failed" => jobs[j].attemptsMade = 3 /\ jobs'[j] = jobs[j]
          /\ jobs'[j].state = "failed" => jobs'[j].attemptsMade = 3]_vars

\* C14 witness: a job is failed after three failed attempts.
C14_Witness ==
    \E j \in 1..Len(jobs) : jobs[j].state = "failed" /\ jobs[j].attemptsMade = 3

\* C15: the step in which an attempt fails in the put, the temp file being there,
\* leaves the temp file with its content.
C15_FailedPutKeepsTheTempFile ==
    [][\A j \in 1..Len(jobs) :
          (/\ JobAttemptFails(j)
           /\ jobs[j].pc = "upload"
           /\ jobs[j].data.tempFilePath \in DOMAIN tempFiles)
          => /\ jobs[j].data.tempFilePath \in DOMAIN tempFiles'
             /\ tempFiles'[jobs[j].data.tempFilePath] = tempFiles[jobs[j].data.tempFilePath]]_vars

\* C15 witness: a job whose put failed is back in the queue and its temp file is
\* on disk for the next attempt.
C15_Witness ==
    \E j \in 1..Len(jobs) :
        /\ jobs[j].state = "waiting"
        /\ jobs[j].failedReason = "storage"
        /\ jobs[j].data.tempFilePath \in DOMAIN tempFiles

\* the Documents created since the start
CreatedDocuments == DOMAIN documents \ DOMAIN SeedDocuments

\* the jobs that completed
CompletedJobs == {j \in 1..Len(jobs) : jobs[j].state = "completed"}

UploadAnswered == Len(uploads') = Len(uploads) + 1

\* the answer given in this step
LastUpload == uploads'[Len(uploads')]

\* C17: an upload request that names a tier that does not exist, or a documentId
\* that matches no Document, is answered 404 and adds no job to the queue (and
\* leaves no temp file).
C17_EnqueueOfMissingTierOrDocumentIsNotFound ==
    [][(/\ UploadAnswered
        /\ \/ LastUpload.tierId \notin Tiers
           \/ /\ LastUpload.documentId # NoDocument
              /\ LastUpload.documentId \notin DOMAIN documents)
       => /\ LastUpload.status = 404
          /\ LastUpload.jobId = NoJob
          /\ jobs' = jobs
          /\ tempFiles' = tempFiles]_vars

\* C17 witness: a request for a missing tier and a request for a missing document
\* were both answered 404 and the queue is empty.
C17_Witness ==
    /\ \E u \in 1..Len(uploads) :
          uploads[u].status = 404 /\ uploads[u].tierId = MissingTierId
    /\ \E u \in 1..Len(uploads) :
          /\ uploads[u].status = 404
          /\ uploads[u].tierId = TierId
          /\ uploads[u].documentId # NoDocument
    /\ jobs = <<>>

\* C18: the step that answers an upload request with 202 has put the job in the
\* queue and answers with its id; the job is waiting, no attempt of it was made and
\* the step wrote neither the tables nor the store; and every step that creates a
\* Document is the commit of a job that was in the queue and answered before.
C18_EnqueueAnswersBeforeTheJobIsProcessed ==
    [][/\ (UploadAnswered /\ LastUpload.status = 202)
          => /\ Len(jobs') = Len(jobs) + 1
             /\ LastUpload.jobId = Len(jobs')
             /\ jobs'[Len(jobs')].state = "waiting"
             /\ jobs'[Len(jobs')].attemptsMade = 0
             /\ jobs'[Len(jobs')].progress = 0
             /\ documents' = documents
             /\ documentVersions' = documentVersions
             /\ store' = store
       /\ (DOMAIN documents' \ DOMAIN documents # {})
          => \E j \in 1..Len(jobs) :
                /\ JobCommits(j)
                /\ \E u \in 1..Len(uploads) :
                      uploads[u].status = 202 /\ uploads[u].jobId = j]_vars

\* C18 witness: an upload request was answered 202 with a job id and that job is
\* still waiting in the queue, no attempt made, while the worker is in the middle
\* of another job.
C18_Witness ==
    /\ \E u \in 1..Len(uploads) :
          /\ uploads[u].status = 202
          /\ uploads[u].jobId \in 1..Len(jobs)
          /\ jobs[uploads[u].jobId].state = "waiting"
          /\ jobs[uploads[u].jobId].attemptsMade = 0
    /\ \E j \in Active : jobs[j].pc = "unlink"

\* the job ids a status request can carry: the known ones and two unknown ones
JobIdInputs == 0..(Len(jobs) + 1)

C20_AtMostThreeActiveJobs ==
    Cardinality(Active) <= 3

\* C20 witness: three jobs are active and a fourth waits in the queue.
C20_Witness ==
    /\ Cardinality(Active) = 3
    /\ \E j \in 1..Len(jobs) : jobs[j].state = "waiting"

\* C21: a delete call that is through has gone round the whole loop over the keys
\* it read, and neither the Document nor a Version row of it exists; a delete call
\* ends in an error only when the Document is not there, never because a storage
\* delete threw.
C21_DeleteRemovesDocumentDespiteStorageErrors ==
    \A i \in 1..Len(deletes) :
        /\ deletes[i].pc = "done"
           => /\ deletes[i].keys = <<>>
              /\ deletes[i].id \notin DOMAIN documents
              /\ VersionsOf(deletes[i].id) = {}
        /\ deletes[i].pc = "error"
           => /\ deletes[i].keys = <<>>
              /\ deletes[i].id \notin DOMAIN documents

\* C21 witness: document 2 is deleted with its Version row although the storage
\* delete of its only object threw: the object is still in the store.
C21_Witness ==
    /\ \E i \in 1..Len(deletes) : deletes[i].id = 2 /\ deletes[i].pc = "done"
    /\ faults = 1
    /\ SeedKey(103) \in DOMAIN store
    /\ 2 \notin DOMAIN documents
    /\ VersionsOf(2) = {}

\* C22: a download request that is not answered with the file is answered 404: the
\* Document is missing, it has no Version, or the object of its latest Version is
\* not in the store, be it already at the existence check or only when streaming
\* starts.
C22_DownloadFailsOnlyWithNotFound ==
    \A i \in 1..Len(downloads) :
        (downloads[i].pc = "done" /\ downloads[i].status # 200)
        => downloads[i].status = 404

\* the i-th download call is answered in this step
DownloadAnswered(i) ==
    /\ i \in 1..Len(downloads')
    /\ downloads'[i].pc = "done"
    /\ i \in 1..Len(downloads) => downloads[i].pc # "done"

\* the content of the file a job carried
UploadedBytes(j) ==
    (CHOOSE file \in UploadFiles : file.originalName = jobs[j].data.originalName).bytes

\* C23: with requests that do not overlap, a download of a Document that a completed
\* upload job created yields exactly the bytes of the uploaded file, and a download
\* of a Document whose newest Version is a revert to version T yields exactly the
\* bytes stored for version T.
C23_DownloadYieldsTheLatestContent ==
    [][\A i \in 1..Len(downloads') :
          DownloadAnswered(i)
          => LET d == downloads'[i].id
             IN  /\ \A j \in FirstUploads :
                       jobs[j].returnvalue.documentId = d
                       => /\ downloads'[i].status = 200
                          /\ downloads'[i].bytes = UploadedBytes(j)
                 /\ \A v \in VersionsOf(d) :
                       (/\ DocumentExists(d)
                        /\ v.versionNumber = SetMax(VersionNumbersOf(d))
                        /\ v.changelog.kind = "Reverted to version")
                       => \A t \in VersionsOf(d) :
                             t.versionNumber = v.changelog.n
                             => /\ downloads'[i].status = 200
                                /\ downloads'[i].bytes = store[t.filePath]]_vars

\* C24: getHistory answers 404 for a Document that does not exist; for one that
\* exists it returns every Version row of the Document, each once and no other
\* row, in strictly descending order of versionNumber.
C24_HistoryIsAllVersionsStrictlyDescending ==
    \A d \in DocumentIdInputs :
        LET h == getHistory(d)
        IN  IF ~DocumentExists(d)
            THEN h.status = 404
            ELSE /\ h.status = 200
                 /\ {h.rows[n] : n \in 1..Len(h.rows)} = VersionsOf(d)
                 /\ Len(h.rows) = Cardinality(VersionsOf(d))
                 /\ \A n \in 1..(Len(h.rows) - 1) :
                       h.rows[n].versionNumber > h.rows[n + 1].versionNumber

\* the keys a storage delete can be asked for: the keys of the objects there are
\* or were, and the keys of the Version rows
KeyInputs ==
    DOMAIN store \cup DOMAIN SeedStore \cup {v.filePath : v \in documentVersions}

\* C25: on each of the four backends delete(key) returns without an error, on a key
\* that is absent it leaves the store as it is, and a second delete(key) after the
\* first returns without an error and leaves the store as the first left it.
C25_StorageDeleteIsIdempotent ==
    \A provider \in Providers, objectKey \in KeyInputs :
        LET once == StorageDeleteOn(provider, store, objectKey)
            twice == StorageDeleteOn(provider, once.store, objectKey)
        IN  /\ ~once.threw
            /\ objectKey \notin DOMAIN once.store
            /\ objectKey \notin DOMAIN store => once.store = store
            /\ ~twice.threw
            /\ twice.store = once.store
            /\ provider = "local" => once.store = StorageDelete(objectKey)

\* C25 witness: a delete call is about to ask the store to delete an object that
\* is no longer there.
C25_Witness ==
    \E i \in 1..Len(deletes) :
        /\ deletes[i].pc = "storage"
        /\ deletes[i].keys # <<>>
        /\ Head(deletes[i].keys) \notin DOMAIN store

\* the revert calls whose copy has written its destination object
RevertsThatCopied == {i \in 1..Len(reverts) : reverts[i].pc \in {"transaction", "done"}}

\* C26: no two operations write the same key of the Object Store: the copies of
\* two distinct revert calls have distinct destination keys, the copy of a revert
\* call and the put of a job have distinct keys, and the puts of two distinct jobs
\* have distinct keys.
C26_EveryWriteTargetsItsOwnKey ==
    /\ \A i, k \in RevertsThatCopied :
          reverts[i].newObjectKey = reverts[k].newObjectKey => i = k
    /\ \A i \in RevertsThatCopied, j \in 1..Len(jobs) :
          reverts[i].newObjectKey # JobObjectKey(j)
    /\ \A j, k \in 1..Len(jobs) : JobObjectKey(j) = JobObjectKey(k) => j = k

\* C27: a revert call never commits with a version number that went stale: in the
\* step in which it commits, its new version number is one above the
\* currentVersion the Document has at that moment (a call that lost the race
\* re-reads and retries, or reports a failure, before it would commit).
C27_NoCommitWithAStaleVersionNumber ==
    [][\A i \in 1..Len(reverts) :
          RevertCommits(i) =>
              reverts[i].newVersionNumber =
                  documents[reverts[i].documentId].currentVersion + 1]_vars

\* the states in which a job has ended
FinalStates == {"completed", "failed"}

\* C28: the worker running on, every job that is ever put in the queue ends
\* completed or failed (the requests being finitely many, from some moment on every
\* job in the queue has ended, for good); and no step removes a job that is waiting
\* or active, moves it to a
\* state other than waiting, active, completed or failed, or changes its data, and
\* the step of a request changes no job that is already in the queue.
C28_EveryJobEndsCompletedOrFailed ==
    /\ <>[](\A j \in 1..Len(jobs) : jobs[j].state \in FinalStates)
    /\ [][\A j \in 1..Len(jobs) :
             jobs[j].state \notin FinalStates =>
                 /\ j <= Len(jobs')
                 /\ jobs'[j].state \in {"waiting", "active"} \cup FinalStates
                 /\ jobs'[j].data = jobs[j].data
                 /\ uploads' # uploads => jobs'[j] = jobs[j]]_vars

\* C28 witness: one job has ended failed after its attempts, another has ended
\* completed.
C28_Witness ==
    \E j, k \in 1..Len(jobs) :
        /\ jobs[j].state = "failed" /\ jobs[j].attemptsMade = Attempts
        /\ jobs[k].state = "completed"

\* C29: in every step, a Document that is created gets currentVersion 1; the
\* currentVersion of a Document that stays never decreases; the commit of a revert
\* call and the commit of a new-version upload job raise the currentVersion of
\* their Document by exactly 1; and a currentVersion changes in no other step.
C29_CurrentVersionRisesByOnePerCommit ==
    [][/\ \A d \in DOMAIN documents' \ DOMAIN documents :
             documents'[d].currentVersion = 1
       /\ \A d \in DOMAIN documents \cap DOMAIN documents' :
             /\ documents'[d].currentVersion >= documents[d].currentVersion
             /\ documents'[d].currentVersion # documents[d].currentVersion =>
                   \/ \E i \in RevertsOn(d) : RevertCommits(i)
                   \/ \E j \in NewVersionJobsOn(d) : JobCommits(j)
             /\ \A i \in RevertsOn(d) :
                   RevertCommits(i) =>
                       documents'[d].currentVersion = documents[d].currentVersion + 1
             /\ \A j \in NewVersionJobsOn(d) :
                   JobCommits(j) =>
                       documents'[d].currentVersion = documents[d].currentVersion + 1]_vars

\* the objects in the store that carry the id of a job in their key
ObjectsOfJob(j) == {k \in DOMAIN store \ DOMAIN SeedStore : k.file[1] = j}

\* C30: whatever the attempts made, the objects a job has stored are at most one,
\* under the key documents/<projectId>/<jobId><ext>; every object stored since the
\* start is the object of a job; and two distinct jobs have distinct keys.
C30_OneObjectKeyPerJob ==
    /\ \A j \in 1..Len(jobs) :
          /\ Cardinality(ObjectsOfJob(j)) <= 1
          /\ ObjectsOfJob(j) \subseteq
                 {UploadObjectKey(jobs[j].data.projectId, j,
                                  Extname(jobs[j].data.originalName))}
    /\ \A k \in DOMAIN store \ DOMAIN SeedStore :
          \E j \in 1..Len(jobs) : k \in ObjectsOfJob(j)
    /\ \A j, k \in 1..Len(jobs) : j # k => JobObjectKey(j) # JobObjectKey(k)

\* C30 witness: a job whose first attempt stored the object and then failed has
\* stored it again in its second attempt, a second job has stored its own object,
\* and the store holds one object for each.
C30_Witness ==
    \E j, k \in 1..Len(jobs) :
        /\ j # k
        /\ jobs[j].attemptsMade = 1
        /\ jobs[j].failedReason = "unlink"
        /\ jobs[j].state = "completed"
        /\ Cardinality(ObjectsOfJob(j)) = 1
        /\ Cardinality(ObjectsOfJob(k)) = 1

\* the copy of revert call i returns in this step
RevertCopyReturns(i) == reverts[i].pc = "copy" /\ reverts'[i].pc # "copy"

\* C31: the step in which the copy of a revert call returns, the source object
\* being there, leaves the source object and every other object as they were and
\* makes the destination hold the bytes of the source; the source object missing,
\* the copy fails, the call ends in an error and the store is as it was.  And the
\* step in which a revert to version T commits inserts a row whose key differs
\* from T's key and whose object is in the store with T's bytes.
C31_CopyDuplicatesTheSourceObject ==
    [][\A i \in 1..Len(reverts) :
          LET r == reverts[i]
              src == TargetOf(r).filePath
              dest == r.newObjectKey
          IN  /\ RevertCopyReturns(i) =>
                    IF src \in DOMAIN store
                    THEN /\ reverts'[i].pc = "transaction"
                         /\ DOMAIN store' = DOMAIN store \cup {dest}
                         /\ store'[dest] = store[src]
                         /\ \A k \in DOMAIN store \ {dest} : store'[k] = store[k]
                    ELSE /\ reverts'[i].pc = "error"
                         /\ store' = store
              /\ RevertCommits(i) =>
                    \A v \in documentVersions' \ documentVersions :
                        /\ v.filePath = dest
                        /\ dest # src
                        /\ dest \in DOMAIN store'
                        /\ src \in DOMAIN store' => store'[dest] = store'[src]]_vars

\* the keys and the source files a storage call can be given: the keys of
\* KeyInputs, the keys of the jobs and of the revert calls, the temp files of the
\* jobs (on disk or removed)
StoreKeyInputs ==
    KeyInputs \cup {JobObjectKey(j) : j \in 1..Len(jobs)}
              \cup {reverts[i].newObjectKey : i \in RevertsThatCopied}
SourcePathInputs == DOMAIN tempFiles \cup {jobs[j].data.tempFilePath : j \in 1..Len(jobs)}

C33_RetryAfterFailedCommitDoesNotMissTheTempFile ==
    [][\A j \in 1..Len(jobs) :
          (JobAttemptFails(j) /\ jobs[j].failedReason = "database")
              => jobs'[j].failedReason # "ENOENT"]_vars

\* the copy of revert call i fails in this step: its source object is missing, or
\* the backend throws
RevertCopyFails(i) ==
    /\ RevertCopyReturns(i)
    /\ TargetOf(reverts[i]).filePath \notin DOMAIN store \/ faults' # faults

\* C34: the step in which the copy of a revert call fails ends the call in an
\* error and changes no Version row and no Document; and a call that ended in an
\* error takes no further step, so it never opens its transaction.
C34_FailedCopyEndsRevertBeforeTheTransaction ==
    [][\A i \in 1..Len(reverts) :
          /\ RevertCopyFails(i) =>
                /\ reverts'[i].pc = "error"
                /\ documentVersions' = documentVersions
                /\ documents' = documents
          /\ reverts[i].pc = "error" => reverts'[i] = reverts[i]]_vars

\* C34 witness: a revert call that read its Document ended in an error, and its
\* Document is there with the currentVersion the call read and with the rows it
\* had: the call failed in its copy.
C34_Witness ==
    \E i \in 1..Len(reverts) :
        /\ reverts[i].pc = "error"
        /\ DocumentExists(reverts[i].documentId)
        /\ reverts[i].newVersionNumber = documents[reverts[i].documentId].currentVersion + 1
        /\ documents[reverts[i].documentId] = SeedDocuments[reverts[i].documentId]
        /\ VersionsOf(reverts[i].documentId) \subseteq SeedVersions

\* the Documents a delete call has removed
DeletedDocuments == {deletes[i].id : i \in {n \in 1..Len(deletes) : deletes[n].pc = "done"}}

\* C35: in every state no Version row names a Document that a completed delete
\* call removed, and every Version row names a Document that exists; and the step
\* in which a revert call comes to its commit after its Document was deleted ends
\* the call in an error and inserts no row.
C35_NoVersionRowOutlivesItsDocument ==
    /\ [](/\ \A v \in documentVersions :
                v.documentId \notin DeletedDocuments /\ v.documentId \in DOMAIN documents)
    /\ [][\A r \in 1..Len(reverts) :
             (/\ reverts[r].pc = "transaction"
              /\ reverts'[r].pc # "transaction"
              /\ reverts[r].documentId \in DeletedDocuments)
             => /\ reverts'[r].pc = "error"
                /\ documentVersions' = documentVersions]_vars

\* C35 witness: the only revert call read its Document and copied its object, the
\* Document was deleted, and the call ended in an error at its commit; its copy is
\* in the store and no row names it.
C35_Witness ==
    /\ Len(reverts) = 1
    /\ reverts[1].pc = "error"
    /\ reverts[1].newObjectKey \in DOMAIN store
    /\ reverts[1].documentId \in DeletedDocuments
    /\ VersionsOf(reverts[1].documentId) = {}

\* C36: when a delete call has ended in an error, every Version row that is left
\* of its Document has its object in the store.
C36_FailedDeleteLeavesEveryRowItsObject ==
    \A i \in 1..Len(deletes) :
        deletes[i].pc = "error" =>
            \A v \in VersionsOf(deletes[i].id) : v.filePath \in DOMAIN store

\* the temp path of the upload request answered in this step
AnsweredTempFilePath == TempFilePath(Len(uploads) + 1)

\* C37: the step that answers an upload request with a rejection (400, 404, or 500
\* after a failed queue add) adds no job and leaves no temp file of the request:
\* the temp files are as before the request; the step that answers 202 adds the
\* job and leaves the request's temp file on disk with the bytes of the file; and
\* the temp file of a job leaves the disk only in a step of the job's attempt and
\* after the attempt has written its bytes into the Object Store under the job's key.
C37_RejectedUploadRemovesItsTempFile ==
    [][/\ UploadAnswered =>
             IF LastUpload.status = 202
             THEN /\ Len(jobs') = Len(jobs) + 1
                  /\ jobs'[Len(jobs')].data.tempFilePath = AnsweredTempFilePath
                  /\ AnsweredTempFilePath \in DOMAIN tempFiles'
                  /\ tempFiles'[AnsweredTempFilePath] \in {f.bytes : f \in UploadFiles}
             ELSE /\ LastUpload.status \in {400, 404, 500}
                  /\ jobs' = jobs
                  /\ AnsweredTempFilePath \notin DOMAIN tempFiles'
                  /\ tempFiles' = tempFiles
       /\ \A j \in 1..Len(jobs) :
             LET f == jobs[j].data.tempFilePath
             IN  (f \in DOMAIN tempFiles /\ f \notin DOMAIN tempFiles')
                     => /\ jobs[j].state = "active"
                        /\ JobObjectKey(j) \in DOMAIN store
                        /\ store[JobObjectKey(j)] = tempFiles[f]]_vars

\* C37 witness: requests were rejected with 400, with 404 and with 500, none left
\* a job or a temp file.
C37_Witness ==
    /\ {uploads[n].status : n \in 1..Len(uploads)} = {400, 404, 500}
    /\ jobs = <<>>
    /\ tempFiles = <<>>

====
